---- MODULE Spec2Model ----
(***************************************************************************)
(* N-ary TreeLSTM unit (chainer/functions/activation/n_ary_tree_lstm.py).  *)
(*                                                                         *)
(* Arrays are records [dtype, shape, dev, data]: data is the flat          *)
(* row-major (C-contiguous) buffer, dev is the memory the array lives in   *)
(* ("host": numpy.ndarray, "device": cupy.ndarray).  Elements are          *)
(* fixed-point numbers with Scale units per 1.0; products are rounded to   *)
(* the nearest unit, sums are exact.                                       *)
(***************************************************************************)
EXTENDS Integers, Sequences, FiniteSets

VARIABLES calls, insts, gate_x, gate_n, gates_out

vars == <<calls, insts, gate_x, gate_n, gates_out>>

(***************************************************************************)
(* Bounds of the explored inputs.                                          *)
(***************************************************************************)
MaxArity == 3
MaxDim == 2
MaxSeed == 1
MaxCalls == 2

(***************************************************************************)
(* Element arithmetic.                                                     *)
(***************************************************************************)
Scale == 8
One == Scale
half == Scale \div 2

\* a * b on elements, rounded to the nearest unit
FMul(a, b) == (2 * a * b + Scale) \div (2 * Scale)

\* numpy.tanh / the kernel's tanh: round(Scale * tanh(v / Scale))
TanhTable == <<1, 2, 3, 4, 4, 5, 6, 6, 6, 7, 7, 7, 7>>
TanhAbs(v) == IF v = 0 THEN 0 ELSE IF v > Len(TanhTable) THEN One ELSE TanhTable[v]
Tanh(v) == IF v < 0 THEN 0 - TanhAbs(0 - v) ELSE TanhAbs(v)

_sigmoid(x) == FMul(Tanh(FMul(x, half)), half) + half

_grad_sigmoid(x) == FMul(x, One - x)

_grad_tanh(x) == One - FMul(x, x)

(***************************************************************************)
(* Shapes and views.                                                       *)
(***************************************************************************)
RECURSIVE Prod(_)
Prod(s) == IF s = <<>> THEN 1 ELSE s[1] * Prod(Tail(s))

ndim(t) == Len(t.shape)

\* the axes after the first two
Trailing(shape) == SubSeq(shape, 3, Len(shape))

\* the slicing of lstm.py: x.reshape((x.shape[0], x.shape[1] // n_split, n_split)
\* + x.shape[2:]) and r[:, :, i]
GateViewThin(shape, n_split, i) ==
    LET w == shape[2] \div n_split
        t == Prod(Trailing(shape))
    IN  [k \in 1..(shape[1] * w * t) |->
            LET e == k - 1
                b == e \div (w * t)
                f == (e % (w * t)) \div t
                r == e % t
            IN  (((b * w + f) * n_split + i) * t + r) + 1]

\* x.reshape((x.shape[0], n_split, x.shape[1] // n_split) + x.shape[2:]) and
\* r[:, i, :] for i in range(n_split): one view per i, each view the sequence
\* of offsets (1-based) into x's buffer, in the view's own row-major order.
GateView(shape, n_split, i) ==
    LET w == shape[2] \div n_split
        t == Prod(Trailing(shape))
    IN  [k \in 1..(shape[1] * w * t) |->
            LET e == k - 1
                b == e \div (w * t)
                f == (e % (w * t)) \div t
                r == e % t
            IN  (((b * n_split + i) * w + f) * t + r) + 1]

_extract_gates(shape, n_split) == [i \in 1..n_split |-> GateView(shape, n_split, i - 1)]

\* reading an array through a view
Take(data, view) == [k \in 1..Len(view) |-> data[view[k]]]

\* view[:] = vals
Assign(buf, view, vals) ==
    [o \in 1..Len(buf) |->
        IF \E k \in 1..Len(view) : view[k] = o
        THEN vals[CHOOSE k \in 1..Len(view) : view[k] = o]
        ELSE buf[o]]

RECURSIVE AssignAll(_, _, _)
AssignAll(buf, views, valss) ==
    IF views = <<>> THEN buf
    ELSE AssignAll(Assign(buf, views[1], valss[1]), Tail(views), Tail(valss))

(***************************************************************************)
(* check_type_forward                                                      *)
(***************************************************************************)
kind(dtype) == IF dtype \in {"float32", "float64"} THEN "f" ELSE "i"

\* the conditions without the comparison of the element types
expect_child_any_dtype(x_type, c_type, n_ary) ==
    /\ kind(c_type.dtype) = "f"
    /\ ndim(c_type) >= 2
    /\ ndim(c_type) = ndim(x_type)
    /\ x_type.shape[1] = c_type.shape[1]
    /\ x_type.shape[2] = (3 + n_ary) * c_type.shape[2]

\* the six conditions of one type_check.expect call, in order
expect_child(x_type, c_type, n_ary) ==
    /\ kind(c_type.dtype) = "f"
    /\ x_type.dtype = c_type.dtype
    /\ ndim(c_type) >= 2
    /\ ndim(c_type) = ndim(x_type)
    /\ x_type.shape[1] = c_type.shape[1]
    /\ x_type.shape[2] = (3 + n_ary) * c_type.shape[2]

\* for j in range(2, c_types[i].ndim): expect(x_type.shape[i] == c_types[i].shape[j])
\* (i and j are the 0-based indices of the source)
RECURSIVE expect_trailing(_, _, _, _)
expect_trailing(x_type, c_type, i, j) ==
    IF j >= ndim(c_type) THEN "ok"
    ELSE IF i >= ndim(x_type) THEN "IndexError"
    ELSE IF x_type.shape[i + 1] # c_type.shape[j + 1] THEN "InvalidType"
    ELSE expect_trailing(x_type, c_type, i, j + 1)

RECURSIVE check_children(_, _, _)
check_children(c_types, x_type, i) ==
    IF i >= Len(c_types) THEN "ok"
    ELSE IF ~expect_child(x_type, c_types[i + 1], Len(c_types)) THEN "InvalidType"
    ELSE LET r == expect_trailing(x_type, c_types[i + 1], i, 2)
         IN  IF r # "ok" THEN r ELSE check_children(c_types, x_type, i + 1)

check_type_forward(in_types) ==
    IF ~(Len(in_types) >= 3) THEN "InvalidType"
    ELSE LET c_types == SubSeq(in_types, 1, Len(in_types) - 1)
             x_type == in_types[Len(in_types)]
         IN  IF ~(ndim(x_type) >= 2) THEN "InvalidType"
             ELSE check_children(c_types, x_type, 0)

(***************************************************************************)
(* NaryTreeLSTM.forward                                                    *)
(***************************************************************************)
Unset == <<>>

\* the attributes of a freshly constructed NaryTreeLSTM
NoAttrs == [a |-> Unset, i |-> Unset, o |-> Unset, fs |-> Unset, c |-> Unset]

\* isinstance(x, numpy.ndarray)
forward_path(inputs) ==
    IF inputs[Len(inputs)].dev = "host" THEN "generic" ELSE "fused"

\* numpy.tanh and _sigmoid on every element of an array
tanh_all(s) == [k \in 1..Len(s) |-> Tanh(s[k])]
sigmoid_all(s) == [k \in 1..Len(s) |-> _sigmoid(s[k])]

\* the sum with every forget gate applied to the first child
RECURSIVE sum_fc_first_child(_, _, _, _)
sum_fc_first_child(fs, cs, k, upto) ==
    IF upto = 0 THEN 0
    ELSE sum_fc_first_child(fs, cs, k, upto - 1) + FMul(fs[upto][k], cs[1][k])

\* sum(f * c for f, c in zip(fs, cs)) at element k: the builtin sum starts
\* from 0 and adds the products in zip order
RECURSIVE sum_fc(_, _, _, _)
sum_fc(fs, cs, k, upto) ==
    IF upto = 0 THEN 0
    ELSE sum_fc(fs, cs, k, upto - 1) + FMul(fs[upto][k], cs[upto][k])

Min(m, n) == IF m < n THEN m ELSE n

\* forward keeping the gate sources in place of their activations
forward_generic_raw(self, cs, a, i, o, fs) ==
    LET A == tanh_all(a)
        I == sigmoid_all(i)
        O == sigmoid_all(o)
        Fs == [j \in 1..Len(fs) |-> sigmoid_all(fs[j])]
        c == [k \in 1..Len(a) |->
                 FMul(A[k], I[k]) + sum_fc(Fs, cs, k, Min(Len(Fs), Len(cs)))]
        h == [k \in 1..Len(a) |-> FMul(O[k], Tanh(c[k]))]
    IN  [self |-> [a |-> a, i |-> i, o |-> o, fs |-> fs, c |-> c],
         outputs |-> <<c, h>>]

\* lines 96-102
forward_generic(self, cs, a, i, o, fs) ==
    LET A == tanh_all(a)
        I == sigmoid_all(i)
        O == sigmoid_all(o)
        Fs == [j \in 1..Len(fs) |-> sigmoid_all(fs[j])]
        c == [k \in 1..Len(a) |->
                 FMul(A[k], I[k]) + sum_fc(Fs, cs, k, Min(Len(Fs), Len(cs)))]
        h == [k \in 1..Len(a) |-> FMul(O[k], Tanh(c[k]))]
    IN  [self |-> [a |-> A, i |-> I, o |-> O, fs |-> Fs, c |-> c],
         outputs |-> <<c, h>>]

\* the names 'c1', ..., 'cN' and the like: <<base, j>>; a name without a
\* number is <<base, 0>>
Names(base, n) == [j \in 1..n |-> <<base, j>>]

\* 'T a, T i_, T o, {}, {}'.format(cells_str, fgates_str)
fwd_in_params(n_ary) ==
    <<<<"a", 0>>, <<"i_", 0>>, <<"o", 0>>>> \o Names("c", n_ary) \o Names("f", n_ary)

\* the statements 'T af{} = sigmoid(f{});' appended to the preamble
preamble_af(n_ary) == [j \in 1..n_ary |-> <<<<"af", j>>, <<"f", j>>>>]

\* the terms 'af{} * c{}' of fc_calc_str
fc_calc(n_ary) == [j \in 1..n_ary |-> <<<<"af", j>>, <<"c", j>>>>]

\* an argument of a computation: an array, or a Python scalar that broadcasts
Arr(data) == [kind |-> "array", data |-> data]
Scalar(v) == [kind |-> "scalar", data |-> <<v>>]
NoneV == [kind |-> "None", data |-> <<>>]
At(arg, k) == IF arg.kind = "scalar" THEN arg.data[1] ELSE arg.data[k]
Arrs(datas) == [j \in 1..Len(datas) |-> Arr(datas[j])]

\* the launch arguments with the forget gates ahead of the cells
fwd_args_gates_first(cs, a, i, o, fs) == <<Arr(a), Arr(i), Arr(o)>> \o Arrs(fs) \o Arrs(cs)

\* a, i, o, *(list(cs) + fs)
fwd_args(cs, a, i, o, fs) == <<Arr(a), Arr(i), Arr(o)>> \o Arrs(cs) \o Arrs(fs)

Pos(params, name) == CHOOSE p \in 1..Len(params) : params[p] = name

\* the value of a kernel identifier at element k: a parameter is bound to the
\* launch argument at its position, an af<j> is the sigmoid of the parameter
\* its preamble statement names
KVal(params, args, pre, name, k) ==
    IF \E p \in 1..Len(params) : params[p] = name
    THEN At(args[Pos(params, name)], k)
    ELSE LET j == CHOOSE q \in 1..Len(pre) : pre[q][1] = name
         IN  _sigmoid(At(args[Pos(params, pre[j][2])], k))

\* aa * ai + <term 1> + ... evaluated left to right
RECURSIVE kernel_sum(_, _, _, _, _, _)
kernel_sum(params, args, pre, terms, k, upto) ==
    IF upto = 0
    THEN FMul(Tanh(KVal(params, args, pre, <<"a", 0>>, k)),
              _sigmoid(KVal(params, args, pre, <<"i_", 0>>, k)))
    ELSE kernel_sum(params, args, pre, terms, k, upto - 1)
         + FMul(KVal(params, args, pre, terms[upto][1], k),
                KVal(params, args, pre, terms[upto][2], k))

\* lines 104-122: only self.c is assigned
forward_fused(self, cs, a, i, o, fs) ==
    LET n_ary == Len(cs)
        params == fwd_in_params(n_ary)
        pre == preamble_af(n_ary)
        terms == fc_calc(n_ary)
        args == fwd_args(cs, a, i, o, fs)
        c == [k \in 1..Len(a) |-> kernel_sum(params, args, pre, terms, k, Len(terms))]
        h == [k \in 1..Len(a) |->
                 FMul(_sigmoid(KVal(params, args, pre, <<"o", 0>>, k)), Tanh(c[k]))]
    IN  [self |-> [self EXCEPT !.c = c], outputs |-> <<c, h>>]

Datas(arrays) == [j \in 1..Len(arrays) |-> arrays[j].data]

\* a, i, o = gates[:3]; fs = gates[3:]
split_gates(gates) ==
    [a |-> gates[1], i |-> gates[2], o |-> gates[3], fs |-> SubSeq(gates, 4, Len(gates))]

\* the arrays seen through the views _extract_gates returns
gate_arrays(x, n_split) ==
    LET views == _extract_gates(x.shape, n_split)
    IN  [j \in 1..Len(views) |-> Take(x.data, views[j])]

forward(self, inputs) ==
    LET cs == SubSeq(inputs, 1, Len(inputs) - 1)
        x == inputs[Len(inputs)]
        n_ary == Len(cs)
        g == split_gates(gate_arrays(x, 3 + n_ary))
    IN  IF forward_path(inputs) = "generic"
        THEN forward_generic(self, Datas(cs), g.a, g.i, g.o, g.fs)
        ELSE forward_fused(self, Datas(cs), g.a, g.i, g.o, g.fs)

(***************************************************************************)
(* NaryTreeLSTM.backward                                                   *)
(***************************************************************************)
\* cuda.get_array_module(*inputs): cupy as soon as one input is a cupy array
get_array_module(inputs) ==
    IF \E j \in 1..Len(inputs) : inputs[j].dev = "device" THEN "cupy" ELSE "numpy"

backward_path(inputs) ==
    IF get_array_module(inputs) = "numpy" THEN "generic" ELSE "fused"

\* xp.empty_like: a fresh buffer whose contents are whatever the allocator left
empty_like(data, garbage) == [k \in 1..Len(data) |-> garbage]

\* an absent gradient taken as 1
default_grad_one(g) == IF g.kind = "None" THEN Scalar(One) ELSE g

\* if gc is None: gc = 0
default_grad(g) == IF g.kind = "None" THEN Scalar(0) ELSE g

Ident(n) == [k \in 1..n |-> k]

\* lines 144-153
backward_generic(self, cs, gc, gh, gx, gates) ==
    LET n_ary == Len(cs)
        len == Len(self.c)
        co == tanh_all(self.c)
        tmp == [k \in 1..len |->
                   FMul(FMul(At(gh, k), self.o[k]), _grad_tanh(co[k])) + At(gc, k)]
        ga == [k \in 1..len |-> FMul(FMul(tmp[k], self.i[k]), _grad_tanh(self.a[k]))]
        gi == [k \in 1..len |-> FMul(FMul(tmp[k], self.a[k]), _grad_sigmoid(self.i[k]))]
        go == [k \in 1..len |-> FMul(FMul(At(gh, k), co[k]), _grad_sigmoid(self.o[k]))]
        gf == [j \in 1..n_ary |->
                  [k \in 1..len |->
                      FMul(FMul(tmp[k], cs[j][k]), _grad_sigmoid(self.fs[j][k]))]]
        gcs == [j \in 1..n_ary |-> [k \in 1..len |-> FMul(tmp[k], self.fs[j][k])]]
        g == split_gates(gates)
    IN  gcs \o <<AssignAll(gx, <<g.a, g.i, g.o>> \o g.fs, <<ga, gi, go>> \o gf)>>

\* 'T c, T gc, T gh, T a, T i_, T o, ' + '{}, {}'.format(cells_str, fgates_str)
bwd_in_params(n_ary) ==
    <<<<"c", 0>>, <<"gc", 0>>, <<"gh", 0>>, <<"a", 0>>, <<"i_", 0>>, <<"o", 0>>>>
        \o Names("c", n_ary) \o Names("f", n_ary)

\* the output parameters with the gf ahead of the gc
bwd_out_params_gf_first(n_ary) ==
    <<<<"ga", 0>>, <<"gi", 0>>, <<"go", 0>>>> \o Names("gf", n_ary) \o Names("gc", n_ary)

\* 'T ga, T gi, T go, {}, {}'.format(g_cells_str, g_fgates_str)
bwd_out_params(n_ary) ==
    <<<<"ga", 0>>, <<"gi", 0>>, <<"go", 0>>>> \o Names("gc", n_ary) \o Names("gf", n_ary)

\* the statements 'gf{} = temp * c{} * grad_sigmoid(af{});'
gf_calc(n_ary) == [j \in 1..n_ary |-> <<<<"gf", j>>, <<"c", j>>, <<"af", j>>>>]

\* the statements 'gc{} = temp * af{};'
gc_calc(n_ary) == [j \in 1..n_ary |-> <<<<"gc", j>>, <<"af", j>>>>]

\* self.c, gc, gh, a, i, o, *(list(cs) + fs ...): the arguments read
bwd_in_args(self, cs, gc, gh, a, i, o, fs) ==
    <<Arr(self.c), gc, gh, Arr(a), Arr(i), Arr(o)>> \o Arrs(cs) \o Arrs(fs)

\* ... + [ga, gi, go] + gcs + gfs: the arguments written; buf 0 is gx, buf j
\* is gcs[j], view the offsets of the buffer the argument covers
bwd_out_args(gates, n_ary, len) ==
    LET g == split_gates(gates)
    IN  <<[buf |-> 0, view |-> g.a], [buf |-> 0, view |-> g.i], [buf |-> 0, view |-> g.o]>>
            \o [j \in 1..n_ary |-> [buf |-> j, view |-> Ident(len)]]
            \o [j \in 1..Len(g.fs) |-> [buf |-> 0, view |-> g.fs[j]]]

\* an assignment to an output parameter stores through the launch argument
\* at the parameter's position
Store(outs, out_params, out_args, name, vals) ==
    LET tgt == out_args[Pos(out_params, name)]
    IN  IF tgt.buf = 0
        THEN [outs EXCEPT !.gx = Assign(@, tgt.view, vals)]
        ELSE [outs EXCEPT !.gcs[tgt.buf] = Assign(@, tgt.view, vals)]

RECURSIVE StoreAll(_, _, _, _)
StoreAll(outs, out_params, out_args, stmts) ==
    IF stmts = <<>> THEN outs
    ELSE StoreAll(Store(outs, out_params, out_args, stmts[1][1], stmts[1][2]),
                  out_params, out_args, Tail(stmts))

\* lines 155-192
backward_fused(self, cs, gc, gh, x, gx, gates, garbage) ==
    LET n_ary == Len(cs)
        xg == split_gates(gate_arrays(x, 3 + n_ary))
        a == xg.a
        i == xg.i
        o == xg.o
        fs == xg.fs
        len == Len(a)
        gcs == [j \in 1..n_ary |-> empty_like(cs[j], garbage)]
        params == bwd_in_params(n_ary)
        pre == preamble_af(n_ary)
        args == bwd_in_args(self, cs, gc, gh, a, i, o, fs)
        V(name, k) == KVal(params, args, pre, name, k)
        aa(k) == Tanh(V(<<"a", 0>>, k))
        ai(k) == _sigmoid(V(<<"i_", 0>>, k))
        ao(k) == _sigmoid(V(<<"o", 0>>, k))
        co(k) == Tanh(V(<<"c", 0>>, k))
        temp(k) == FMul(FMul(V(<<"gh", 0>>, k), ao(k)), _grad_tanh(co(k)))
                   + V(<<"gc", 0>>, k)
        gfc == gf_calc(n_ary)
        gcc == gc_calc(n_ary)
        stmts ==
            <<<<<<"ga", 0>>, [k \in 1..len |-> FMul(FMul(temp(k), ai(k)), _grad_tanh(aa(k)))]>>,
              <<<<"gi", 0>>, [k \in 1..len |-> FMul(FMul(temp(k), aa(k)), _grad_sigmoid(ai(k)))]>>,
              <<<<"go", 0>>, [k \in 1..len |->
                                 FMul(FMul(V(<<"gh", 0>>, k), co(k)), _grad_sigmoid(ao(k)))]>>>>
            \o [j \in 1..Len(gfc) |->
                   <<gfc[j][1], [k \in 1..len |->
                       FMul(FMul(temp(k), V(gfc[j][2], k)), _grad_sigmoid(V(gfc[j][3], k)))]>>]
            \o [j \in 1..Len(gcc) |->
                   <<gcc[j][1], [k \in 1..len |-> FMul(temp(k), V(gcc[j][2], k))]>>]
        outs == StoreAll([gx |-> gx, gcs |-> gcs], bwd_out_params(n_ary),
                         bwd_out_args(gates, n_ary, len), stmts)
    IN  outs.gcs \o <<outs.gx>>

backward(self, inputs, grad_outputs, garbage) ==
    LET cs == SubSeq(inputs, 1, Len(inputs) - 1)
        x == inputs[Len(inputs)]
        n_ary == Len(cs)
        gx == empty_like(x.data, garbage)
        gates == _extract_gates(x.shape, 3 + n_ary)
        gc == default_grad(grad_outputs[1])
        gh == default_grad(grad_outputs[2])
    IN  IF backward_path(inputs) = "generic"
        THEN backward_generic(self, Datas(cs), gc, gh, gx, gates)
        ELSE backward_fused(self, Datas(cs), gc, gh, x, gx, gates, garbage)

(***************************************************************************)
(* n_ary_tree_lstm and the calls the framework makes on the function       *)
(***************************************************************************)
\* one instance shared by all calls
NaryTreeLSTM_shared(heap) ==
    IF heap = <<>> THEN [heap |-> <<NoAttrs>>, id |-> 1] ELSE [heap |-> heap, id |-> 1]

\* NaryTreeLSTM(): a new instance, with no attribute set
NaryTreeLSTM(heap) == [heap |-> Append(heap, NoAttrs), id |-> Len(heap) + 1]

Homogeneous(inputs) ==
    \A j \in 1..Len(inputs) : inputs[j].dev = inputs[Len(inputs)].dev

\* numpy and cupy arrays do not mix: what the array libraries do with operands
\* of both kinds is theirs to decide, the computation goes through or raises
Outcomes(inputs) == IF Homogeneous(inputs) THEN {"ok"} ELSE {"ok", "TypeError"}

\* Function.__call__: the type check, then forward on the arrays
Function_call(self, inputs, outcome) ==
    LET checked == check_type_forward(inputs)
        r == forward(self, inputs)
    IN  IF checked # "ok"
        THEN [status |-> checked, path |-> "none", self |-> self, outputs |-> <<>>]
        ELSE IF outcome = "ok"
        THEN [status |-> "forwarded", path |-> forward_path(inputs),
              self |-> r.self, outputs |-> r.outputs]
        ELSE [status |-> "TypeError", path |-> forward_path(inputs),
              self |-> [r.self EXCEPT !.c = self.c], outputs |-> <<>>]

\* return NaryTreeLSTM()(*inputs)
n_ary_tree_lstm(inputs, limit) ==
    /\ Len(calls) < limit
    /\ \E outcome \in Outcomes(inputs) :
          LET new == NaryTreeLSTM(insts)
              r == Function_call(new.heap[new.id], inputs, outcome)
          IN  /\ insts' = [new.heap EXCEPT ![new.id] = r.self]
              /\ calls' = Append(calls,
                     [inputs |-> inputs, inst |-> new.id, status |-> r.status,
                      path |-> r.path, outputs |-> r.outputs,
                      grads |-> <<>>, bwd_path |-> "none", grad_inputs |-> <<>>])
    /\ UNCHANGED <<gate_x, gate_n, gates_out>>

\* the framework's call of backward on the function of pairing p, with the
\* inputs of its forward and the upstream gradients
call_backward(p, grad_outputs, garbage) ==
    /\ p \in 1..Len(calls)
    /\ calls[p].status = "forwarded"
    /\ \E outcome \in Outcomes(calls[p].inputs) :
          calls' = [calls EXCEPT ![p] =
              IF outcome = "ok"
              THEN [@ EXCEPT !.status = "backwarded",
                             !.grads = grad_outputs,
                             !.bwd_path = backward_path(calls[p].inputs),
                             !.grad_inputs = backward(insts[calls[p].inst],
                                                      calls[p].inputs,
                                                      grad_outputs, garbage)]
              ELSE [@ EXCEPT !.status = "TypeError",
                             !.grads = grad_outputs,
                             !.bwd_path = backward_path(calls[p].inputs)]]
    /\ UNCHANGED <<insts, gate_x, gate_n, gates_out>>

\* _extract_gates applied to an array on its own
extract_gates_step ==
    /\ gate_x # <<>>
    /\ gates_out = <<>>
    /\ gates_out' = split_gates(gate_arrays(gate_x, gate_n))
    /\ UNCHANGED <<calls, insts, gate_x, gate_n>>

(***************************************************************************)
(* The inputs explored.                                                    *)
(***************************************************************************)
Dims == 1..MaxDim
Seeds == 0..MaxSeed
DTypes == {"float32", "float64", "int32"}
Devs == {"host", "device"}
Garbage == {-77, 55}

Fill(seed, k) == ((5 * seed + 7 * k) % 33) - 16

MkArray(dtype, shape, dev, seed) ==
    [dtype |-> dtype, shape |-> shape, dev |-> dev,
     data |-> [k \in 1..Prod(shape) |-> Fill(seed, k)]]

ChildShapes ==
    {<<b>> : b \in Dims} \cup {<<b, f>> : b \in Dims, f \in Dims}
        \cup {<<b, f, t>> : b \in Dims, f \in Dims, t \in Dims}

XShapes(n) ==
    {<<b>> : b \in Dims} \cup {<<b, (3 + n) * f>> : b \in Dims, f \in Dims}
        \cup {<<b, (3 + n) * f, t>> : b \in Dims, f \in Dims, t \in Dims}

\* float32 arrays: children all of one shape, and x of any shape
AlikeInputs ==
    UNION {{[j \in 1..(n + 1) |->
                IF j = n + 1 THEN MkArray("float32", xs, "host", 0)
                ELSE MkArray("float32", cs, "host", j)] :
            xs \in XShapes(n), cs \in ChildShapes} :
           n \in 0..MaxArity}

\* float32 arrays: children that fit x, but for one child of any shape
OddInputs ==
    UNION {{[j \in 1..(n + 1) |->
                IF j = n + 1 THEN MkArray("float32", <<b, (3 + n) * f>> \o tr, "host", 0)
                ELSE MkArray("float32", IF j = odd THEN os ELSE <<b, f>> \o tr, "host", j)] :
            b \in Dims, f \in Dims, tr \in {<<>>} \cup {<<t>> : t \in Dims},
            os \in ChildShapes, odd \in 1..n} :
           n \in 1..MaxArity}

ShapeInputs == AlikeInputs \cup OddInputs

\* arrays of matching shapes and any element types
DtypeInputs ==
    UNION {{[j \in 1..(n + 1) |->
                MkArray(dts[j], IF j = n + 1 THEN <<b, (3 + n) * f>> \o tr
                                ELSE <<b, f>> \o tr, "host", j)] :
            b \in Dims, f \in Dims, tr \in {<<>>} \cup {<<t>> : t \in Dims},
            dts \in [1..(n + 1) -> DTypes]} :
           n \in 2..MaxArity}

\* well-formed arrays of rank 2, with any contents and residency
ValueInputs ==
    UNION {{[j \in 1..(n + 1) |->
                MkArray("float32", IF j = n + 1 THEN <<b, (3 + n) * f>> ELSE <<b, f>>,
                        devs[j], seed + 3 * j)] :
            b \in Dims, f \in Dims, seed \in Seeds, devs \in [1..(n + 1) -> Devs]} :
           n \in 2..MaxArity}

Inputs == ShapeInputs \cup DtypeInputs \cup ValueInputs

\* the inputs of two calls that run side by side
PairInputs ==
    UNION {{[j \in 1..(n + 1) |->
                MkArray("float32", IF j = n + 1 THEN <<1, 3 + n>> ELSE <<1, 1>>,
                        dev, seed + 3 * j)] :
            seed \in Seeds, dev \in Devs} :
           n \in 2..MaxArity}

\* an upstream gradient: absent, or an array of the outputs' shape
Grads(call) ==
    {NoneV} \cup {Arr([k \in 1..Len(call.outputs[1]) |-> Fill(seed + 5, k)]) : seed \in Seeds}

GateInputs ==
    {[n |-> n, x |-> MkArray("float32", <<b, n * f>> \o tr, "host", seed)] :
        n \in 5..(3 + MaxArity), b \in Dims, f \in Dims, seed \in Seeds,
        tr \in {<<>>} \cup {<<t>> : t \in Dims} \cup {<<t, u>> : t \in Dims, u \in Dims}}

Init ==
    /\ calls = <<>>
    /\ insts = <<>>
    /\ gate_x = <<>>
    /\ gate_n = 0
    /\ gates_out = <<>>

Forward == \E inputs \in Inputs : n_ary_tree_lstm(inputs, 1)

Backward ==
    \E p \in {q \in 1..Len(calls) : calls[q].status = "forwarded"} :
        \E gc \in Grads(calls[p]), gh \in Grads(calls[p]), garbage \in Garbage :
            call_backward(p, <<gc, gh>>, garbage)

Next == Forward \/ Backward

Spec == Init /\ [][Next]_vars

\* MaxCalls calls whose forward and backward steps interleave
PairForward == \E inputs \in PairInputs : n_ary_tree_lstm(inputs, MaxCalls)

PairBackward ==
    \E p \in {q \in 1..Len(calls) : calls[q].status = "forwarded"} :
        \E g \in Grads(calls[p]), garbage \in Garbage :
            call_backward(p, <<g, g>>, garbage)

NextPair == PairForward \/ PairBackward

SpecPair == Init /\ [][NextPair]_vars

\* _extract_gates on its own
InitGates ==
    /\ calls = <<>>
    /\ insts = <<>>
    /\ \E g \in GateInputs : gate_x = g.x /\ gate_n = g.n
    /\ gates_out = <<>>

NextGates == extract_gates_step

SpecGates == InitGates /\ [][NextGates]_vars

(***************************************************************************)
(* Properties.                                                             *)
(***************************************************************************)
Rejected == {"InvalidType", "IndexError"}

Children(call) == SubSeq(call.inputs, 1, Len(call.inputs) - 1)
GateSource(call) == call.inputs[Len(call.inputs)]
Arity(call) == Len(call.inputs) - 1

\* every trailing axis of every child is as long as the same axis of x
TrailingEqual(call) ==
    \A n \in 1..Arity(call) : \A j \in 3..ndim(Children(call)[n]) :
        GateSource(call).shape[j] = Children(call)[n].shape[j]

\* the conditions of the type check other than the trailing axes
OtherConditions(call) ==
    /\ Len(call.inputs) >= 3
    /\ ndim(GateSource(call)) >= 2
    /\ \A n \in 1..Arity(call) :
          LET c == Children(call)[n]
              x == GateSource(call)
          IN  /\ c.dtype \in {"float32", "float64"}
              /\ c.dtype = x.dtype
              /\ ndim(c) >= 2
              /\ ndim(c) = ndim(x)
              /\ c.shape[1] = x.shape[1]
              /\ x.shape[2] = (3 + Arity(call)) * c.shape[2]

\* C1: among the inputs of rank 3 or more that meet every other condition of
\* the type check, exactly those are accepted whose children have the
\* gate-source's length on every trailing axis.
C1_TrailingAxesDecide ==
    \A p \in 1..Len(calls) :
        (OtherConditions(calls[p]) /\ ndim(GateSource(calls[p])) >= 3)
            => ((calls[p].status \notin Rejected) <=> TrailingEqual(calls[p]))

FewInputs(call) == Len(call.inputs) < 3

WidthDiffers(call) ==
    \E n \in 1..Arity(call) :
        /\ ndim(Children(call)[n]) >= 2
        /\ ndim(GateSource(call)) >= 2
        /\ GateSource(call).shape[2] # (3 + Arity(call)) * Children(call)[n].shape[2]

DtypeDiffers(call) ==
    \E n \in 1..Arity(call) : Children(call)[n].dtype # GateSource(call).dtype

BatchDiffers(call) ==
    \E n \in 1..Arity(call) : Children(call)[n].shape[1] # GateSource(call).shape[1]

RankDiffers(call) ==
    \E n \in 1..Arity(call) : ndim(Children(call)[n]) # ndim(GateSource(call))

\* C2: a call with fewer than three inputs, or with a child whose feature
\* width, element type, batch length or rank does not fit the gate-source, is
\* rejected by the type check, and forward has computed nothing for it: the
\* call has no outputs and its instance no attribute.
C2_ViolationsRejected ==
    \A p \in 1..Len(calls) :
        (\/ FewInputs(calls[p])
         \/ WidthDiffers(calls[p])
         \/ DtypeDiffers(calls[p])
         \/ BatchDiffers(calls[p])
         \/ RankDiffers(calls[p]))
            => /\ calls[p].status \in Rejected
               /\ calls[p].path = "none"
               /\ calls[p].outputs = <<>>
               /\ insts[calls[p].inst] = NoAttrs

\* a call rejected for its feature width alone
C2_Witness ==
    \E p \in 1..Len(calls) :
        /\ WidthDiffers(calls[p])
        /\ ~FewInputs(calls[p]) /\ ~DtypeDiffers(calls[p])
        /\ ~BatchDiffers(calls[p]) /\ ~RankDiffers(calls[p])
        /\ calls[p].status = "InvalidType"

\* element (b, w, t) of the array given to _extract_gates, t running over
\* the flattened trailing axes
GateElem(b, w, t) ==
    gate_x.data[(b * gate_x.shape[2] + w) * Prod(Trailing(gate_x.shape)) + t + 1]

\* C3: _extract_gates(x, 3+N) yields 3+N slices of feature width F; slice k
\* holds the features k*F .. (k+1)*F-1 of x at unchanged batch and trailing
\* indices; the slices are bound in the order a, i, o, f_1, ..., f_N, are
\* pairwise disjoint and cover x.
C3_ContiguousSlices ==
    gates_out # <<>> =>
        LET F == gate_x.shape[2] \div gate_n
            B == gate_x.shape[1]
            T == Prod(Trailing(gate_x.shape))
            slices == <<gates_out.a, gates_out.i, gates_out.o>> \o gates_out.fs
            views == _extract_gates(gate_x.shape, gate_n)
        IN  /\ Len(slices) = gate_n
            /\ Len(gates_out.fs) = gate_n - 3
            /\ \A k \in 0..(gate_n - 1) :
                  /\ Len(slices[k + 1]) = B * F * T
                  /\ \A b \in 0..(B - 1), f \in 0..(F - 1), t \in 0..(T - 1) :
                        slices[k + 1][(b * F + f) * T + t + 1] = GateElem(b, k * F + f, t)
            /\ \A k1 \in 1..gate_n, k2 \in 1..gate_n :
                  k1 # k2 =>
                      {views[k1][e] : e \in 1..Len(views[k1])}
                          \cap {views[k2][e] : e \in 1..Len(views[k2])} = {}
            /\ UNION {{views[k][e] : e \in 1..Len(views[k])} : k \in 1..gate_n}
                   = 1..Len(gate_x.data)

\* the gates of an array with two features per gate and a trailing axis
C3_Witness ==
    /\ gates_out # <<>>
    /\ gate_n = 5
    /\ gate_x.shape = <<2, 10, 2>>
    /\ gates_out.i # gates_out.a

(***************************************************************************)
(* The formulas of the unit, element by element, on the input arrays.      *)
(***************************************************************************)
Computed(call) == call.status \in {"forwarded", "backwarded"}

BatchOf(call) == GateSource(call).shape[1]
WidthOf(call) == Children(call)[1].shape[2]
TrailOf(call) == Prod(Trailing(GateSource(call).shape))

\* position of element (b, f, t) in an array shaped like a child
ElemIdx(call, b, f, t) == (b * WidthOf(call) + f) * TrailOf(call) + t + 1

\* position of element (b, w, t) in an array shaped like x
XIdx(call, b, w, t) == (b * GateSource(call).shape[2] + w) * TrailOf(call) + t + 1

XAt(call, b, w, t) == GateSource(call).data[XIdx(call, b, w, t)]
ChildAt(call, n, b, f, t) == Children(call)[n].data[ElemIdx(call, b, f, t)]

ActA(call, b, f, t) == Tanh(XAt(call, b, f, t))
ActI(call, b, f, t) == _sigmoid(XAt(call, b, WidthOf(call) + f, t))
ActO(call, b, f, t) == _sigmoid(XAt(call, b, 2 * WidthOf(call) + f, t))
ActF(call, n, b, f, t) == _sigmoid(XAt(call, b, (2 + n) * WidthOf(call) + f, t))

RECURSIVE ForgetSum(_, _, _, _, _)
ForgetSum(call, n, b, f, t) ==
    IF n = 0 THEN 0
    ELSE ForgetSum(call, n - 1, b, f, t)
         + FMul(ActF(call, n, b, f, t), ChildAt(call, n, b, f, t))

CellAt(call, b, f, t) ==
    FMul(ActA(call, b, f, t), ActI(call, b, f, t)) + ForgetSum(call, Arity(call), b, f, t)

Elems(call) ==
    (0..(BatchOf(call) - 1)) \X (0..(WidthOf(call) - 1)) \X (0..(TrailOf(call) - 1))

\* C4: forward returns (c, h) with c = tanh(a)*sigmoid(i) + the sum over the
\* children, in input order, of sigmoid(f_n)*c_n, and h = sigmoid(o)*tanh(c),
\* at every element and for the number of children the call was given.
C4_ForwardFormula ==
    \A p \in 1..Len(calls) :
        Computed(calls[p]) =>
            LET call == calls[p]
                len == BatchOf(call) * WidthOf(call) * TrailOf(call)
            IN  /\ Arity(call) >= 2
                /\ Len(call.outputs) = 2
                /\ Len(call.outputs[1]) = len
                /\ Len(call.outputs[2]) = len
                /\ \A e \in Elems(call) :
                      /\ call.outputs[1][ElemIdx(call, e[1], e[2], e[3])]
                            = CellAt(call, e[1], e[2], e[3])
                      /\ call.outputs[2][ElemIdx(call, e[1], e[2], e[3])]
                            = FMul(ActO(call, e[1], e[2], e[3]),
                                   Tanh(CellAt(call, e[1], e[2], e[3])))

\* a forward over three children of two features each
C4_Witness ==
    \E p \in 1..Len(calls) :
        /\ calls[p].status = "forwarded"
        /\ Arity(calls[p]) = 3
        /\ WidthOf(calls[p]) = 2
        /\ \E k \in 1..Len(calls[p].outputs[1]) : calls[p].outputs[1][k] # 0

\* an upstream gradient at position k, an absent one counting as 0
GradAt(g, k) == IF g.kind = "None" THEN 0 ELSE g.data[k]

CoAt(call, b, f, t) == Tanh(CellAt(call, b, f, t))

TmpAt(call, b, f, t) ==
    FMul(FMul(GradAt(call.grads[2], ElemIdx(call, b, f, t)), ActO(call, b, f, t)),
         One - FMul(CoAt(call, b, f, t), CoAt(call, b, f, t)))
    + GradAt(call.grads[1], ElemIdx(call, b, f, t))

\* the value the formulas give to slice k (0-based) of gx at element (b, f, t)
GxSliceAt(call, k, b, f, t) ==
    IF k = 0
    THEN FMul(FMul(TmpAt(call, b, f, t), ActI(call, b, f, t)),
              One - FMul(ActA(call, b, f, t), ActA(call, b, f, t)))
    ELSE IF k = 1
    THEN FMul(FMul(TmpAt(call, b, f, t), ActA(call, b, f, t)),
              FMul(ActI(call, b, f, t), One - ActI(call, b, f, t)))
    ELSE IF k = 2
    THEN FMul(FMul(GradAt(call.grads[2], ElemIdx(call, b, f, t)), CoAt(call, b, f, t)),
              FMul(ActO(call, b, f, t), One - ActO(call, b, f, t)))
    ELSE FMul(FMul(TmpAt(call, b, f, t), ChildAt(call, k - 2, b, f, t)),
              FMul(ActF(call, k - 2, b, f, t), One - ActF(call, k - 2, b, f, t)))

\* C5: backward returns N+1 gradients, gc_1..gc_N then gx: gc_n = tmp*F_n,
\* and gx, shaped like x, has as its 3+N feature slices ga, gi, go, gf_1..gf_N
\* of the formulas, with tmp = gh*O*(1-co^2) + gc and co = tanh(c); no
\* element of gx is left as allocated.
C5_BackwardFormula ==
    \A p \in 1..Len(calls) :
        calls[p].status = "backwarded" =>
            LET call == calls[p]
                N == Arity(call)
                gx == call.grad_inputs[N + 1]
            IN  /\ Len(call.grad_inputs) = N + 1
                /\ Len(gx) = Len(GateSource(call).data)
                /\ \A k \in 1..Len(gx) : gx[k] \notin Garbage
                /\ \A e \in Elems(call) :
                      /\ \A n \in 1..N :
                            /\ Len(call.grad_inputs[n]) = Len(Children(call)[n].data)
                            /\ call.grad_inputs[n][ElemIdx(call, e[1], e[2], e[3])]
                                  = FMul(TmpAt(call, e[1], e[2], e[3]),
                                         ActF(call, n, e[1], e[2], e[3]))
                      /\ \A k \in 0..(N + 2) :
                            gx[XIdx(call, e[1], k * WidthOf(call) + e[2], e[3])]
                                = GxSliceAt(call, k, e[1], e[2], e[3])

\* a backward over three children of two features, both gradients given
C5_Witness ==
    \E p \in 1..Len(calls) :
        /\ calls[p].status = "backwarded"
        /\ Arity(calls[p]) = 3
        /\ WidthOf(calls[p]) = 2
        /\ calls[p].grads[1].kind = "array"
        /\ calls[p].grads[2].kind = "array"
        /\ \E k \in 1..Len(calls[p].grad_inputs[4]) : calls[p].grad_inputs[4][k] # 0

\* the all-zero array standing in for an absent gradient
Zeroed(g, len) == IF g.kind = "None" THEN Arr([k \in 1..len |-> 0]) ELSE g

\* C6: backward with an absent grad_new_cell or grad_output returns what it
\* returns with an all-zero array of the output's shape in its place, on the
\* generic and on the fused path.
C6_AbsentIsZero ==
    \A p \in 1..Len(calls) :
        calls[p].status = "backwarded" =>
            LET call == calls[p]
                len == Len(call.outputs[1])
            IN  \A garbage \in Garbage :
                    call.grad_inputs
                        = backward(insts[call.inst], call.inputs,
                                   <<Zeroed(call.grads[1], len), Zeroed(call.grads[2], len)>>,
                                   garbage)

\* a backward on the fused path with grad_new_cell absent
C6_Witness ==
    \E p \in 1..Len(calls) :
        /\ calls[p].status = "backwarded"
        /\ calls[p].bwd_path = "fused"
        /\ calls[p].grads[1] = NoneV
        /\ calls[p].grads[2].kind = "array"

\* the attributes forward leaves on a fresh instance for these inputs
OwnCache(call) == forward(NoAttrs, call.inputs).self

\* C7: however the forward and backward steps of independent calls of
\* n_ary_tree_lstm interleave, every call has an instance of its own, the
\* instance of a call holds what that call's forward wrote, and the call's
\* backward computes from exactly that.
C7_OwnCacheRead ==
    /\ \A p \in 1..Len(calls), q \in 1..Len(calls) :
          p # q => calls[p].inst # calls[q].inst
    /\ \A p \in 1..Len(calls) :
          /\ Computed(calls[p]) => insts[calls[p].inst] = OwnCache(calls[p])
          /\ calls[p].status = "backwarded" =>
                \A garbage \in Garbage :
                    calls[p].grad_inputs
                        = backward(OwnCache(calls[p]), calls[p].inputs,
                                   calls[p].grads, garbage)

\* a backward that ran after the forward of another call on other inputs
C7_Witness ==
    /\ Len(calls) >= 2
    /\ calls[1].status = "backwarded"
    /\ calls[2].status = "forwarded"
    /\ OwnCache(calls[1]) # OwnCache(calls[2])
    /\ calls[1].path = calls[2].path

\* C8: a call whose inputs do not all live in the same memory is rejected
\* with a validation error, and no call runs forward on one path and
\* backward on the other.
C8_MixedResidencyRejected ==
    \A p \in 1..Len(calls) :
        /\ ~Homogeneous(calls[p].inputs) => calls[p].status \in Rejected
        /\ calls[p].bwd_path # "none" => calls[p].bwd_path = calls[p].path

\* the generic computation on the inputs of a call
GenericForward(call) ==
    LET g == split_gates(gate_arrays(GateSource(call), 3 + Arity(call)))
    IN  forward_generic(NoAttrs, Datas(Children(call)), g.a, g.i, g.o, g.fs)

GenericBackward(call, garbage) ==
    backward_generic(GenericForward(call).self, Datas(Children(call)),
                     default_grad(call.grads[1]), default_grad(call.grads[2]),
                     empty_like(GateSource(call).data, garbage),
                     _extract_gates(GateSource(call).shape, 3 + Arity(call)))

\* C9: on the fused path the outputs and the gradients are those of the
\* generic path; the parameters of both kernels are bound, by position, to
\* the arrays of their names, and the kernels for N children have one term
\* af_n*c_n, one gf_n and one gc_n statement for each n in 1..N.
C9_FusedIsGeneric ==
    \A p \in 1..Len(calls) :
        LET call == calls[p]
            N == Arity(call)
            cs == Datas(Children(call))
            g == split_gates(gate_arrays(GateSource(call), 3 + N))
            views == split_gates(_extract_gates(GateSource(call).shape, 3 + N))
            fin == fwd_in_params(N)
            fargs == fwd_args(cs, g.a, g.i, g.o, g.fs)
            bin == bwd_in_params(N)
            bargs == bwd_in_args(insts[call.inst], cs, call.grads[1], call.grads[2],
                                 g.a, g.i, g.o, g.fs)
            bout == bwd_out_params(N)
            bouts == bwd_out_args(_extract_gates(GateSource(call).shape, 3 + N), N,
                                  Len(g.a))
        IN  /\ (Computed(call) /\ call.path = "fused") =>
                  /\ call.outputs = GenericForward(call).outputs
                  /\ Len(fin) = 3 + 2 * N /\ Len(fargs) = Len(fin)
                  /\ fargs[Pos(fin, <<"a", 0>>)] = Arr(g.a)
                  /\ fargs[Pos(fin, <<"i_", 0>>)] = Arr(g.i)
                  /\ fargs[Pos(fin, <<"o", 0>>)] = Arr(g.o)
                  /\ \A n \in 1..N :
                        /\ fargs[Pos(fin, <<"c", n>>)] = Arr(cs[n])
                        /\ fargs[Pos(fin, <<"f", n>>)] = Arr(g.fs[n])
                        /\ Cardinality({t \in 1..Len(fc_calc(N)) :
                               fc_calc(N)[t] = <<<<"af", n>>, <<"c", n>>>>}) = 1
                  /\ Len(fc_calc(N)) = N
            /\ (call.status = "backwarded" /\ call.bwd_path = "fused") =>
                  /\ \A garbage \in Garbage :
                        call.grad_inputs = GenericBackward(call, garbage)
                  /\ Len(bin) = 6 + 2 * N /\ Len(bargs) = Len(bin)
                  /\ Len(bout) = 3 + 2 * N /\ Len(bouts) = Len(bout)
                  /\ bargs[Pos(bin, <<"c", 0>>)] = Arr(insts[call.inst].c)
                  /\ bargs[Pos(bin, <<"gc", 0>>)] = call.grads[1]
                  /\ bargs[Pos(bin, <<"gh", 0>>)] = call.grads[2]
                  /\ bargs[Pos(bin, <<"a", 0>>)] = Arr(g.a)
                  /\ bargs[Pos(bin, <<"i_", 0>>)] = Arr(g.i)
                  /\ bargs[Pos(bin, <<"o", 0>>)] = Arr(g.o)
                  /\ bouts[Pos(bout, <<"ga", 0>>)] = [buf |-> 0, view |-> views.a]
                  /\ bouts[Pos(bout, <<"gi", 0>>)] = [buf |-> 0, view |-> views.i]
                  /\ bouts[Pos(bout, <<"go", 0>>)] = [buf |-> 0, view |-> views.o]
                  /\ \A n \in 1..N :
                        /\ bargs[Pos(bin, <<"c", n>>)] = Arr(cs[n])
                        /\ bargs[Pos(bin, <<"f", n>>)] = Arr(g.fs[n])
                        /\ bouts[Pos(bout, <<"gc", n>>)].buf = n
                        /\ bouts[Pos(bout, <<"gf", n>>)] = [buf |-> 0, view |-> views.fs[n]]
                        /\ Cardinality({t \in 1..Len(gf_calc(N)) :
                               gf_calc(N)[t] = <<<<"gf", n>>, <<"c", n>>, <<"af", n>>>>}) = 1
                        /\ Cardinality({t \in 1..Len(gc_calc(N)) :
                               gc_calc(N)[t] = <<<<"gc", n>>, <<"af", n>>>>}) = 1
                  /\ Len(gf_calc(N)) = N /\ Len(gc_calc(N)) = N

\* forward and backward on the fused path, over three children
C9_Witness ==
    \E p \in 1..Len(calls) :
        /\ calls[p].status = "backwarded"
        /\ calls[p].path = "fused"
        /\ calls[p].bwd_path = "fused"
        /\ Arity(calls[p]) = 3
        /\ calls[p].grads[2].kind = "array"

\* the instance holds c of the formulas
HoldsCell(call, attrs) ==
    /\ Len(attrs.c) = Len(Children(call)[1].data)
    /\ attrs.c = call.outputs[1]
    /\ \A e \in Elems(call) :
          attrs.c[ElemIdx(call, e[1], e[2], e[3])] = CellAt(call, e[1], e[2], e[3])

\* the instance holds A, I, O and F_1..F_N of the formulas
HoldsActivations(call, attrs) ==
    /\ Len(attrs.a) = Len(Children(call)[1].data)
    /\ Len(attrs.i) = Len(attrs.a)
    /\ Len(attrs.o) = Len(attrs.a)
    /\ Len(attrs.fs) = Arity(call)
    /\ \A e \in Elems(call) :
          LET k == ElemIdx(call, e[1], e[2], e[3])
          IN  /\ attrs.a[k] = ActA(call, e[1], e[2], e[3])
              /\ attrs.i[k] = ActI(call, e[1], e[2], e[3])
              /\ attrs.o[k] = ActO(call, e[1], e[2], e[3])
              /\ \A n \in 1..Arity(call) :
                    /\ Len(attrs.fs[n]) = Len(attrs.a)
                    /\ attrs.fs[n][k] = ActF(call, n, e[1], e[2], e[3])

\* C10 as stated: after forward on either path the instance holds A, I, O,
\* F_1..F_N and c, and still does, with the inputs they were computed from,
\* after the matching backward.
C10_FullCacheRetained ==
    \A p \in 1..Len(calls) :
        Computed(calls[p]) =>
            /\ HoldsCell(calls[p], insts[calls[p].inst])
            /\ HoldsActivations(calls[p], insts[calls[p].inst])

\* C10 amended: after forward the instance holds c, and on the generic path
\* A, I, O, F_1..F_N as well; on the fused path these four attributes are not
\* set (the backward kernel computes them again from x); the matching
\* backward leaves the attributes and the inputs as they were.
C10_CacheRetained ==
    \A p \in 1..Len(calls) :
        Computed(calls[p]) =>
            LET attrs == insts[calls[p].inst]
            IN  /\ HoldsCell(calls[p], attrs)
                /\ calls[p].path = "generic" => HoldsActivations(calls[p], attrs)
                /\ calls[p].path = "fused" =>
                      /\ attrs.a = Unset /\ attrs.i = Unset
                      /\ attrs.o = Unset /\ attrs.fs = Unset

\* a backward done on an instance whose forward took the fused path
C10_Witness ==
    \E p \in 1..Len(calls) :
        /\ calls[p].status = "backwarded"
        /\ calls[p].path = "fused"
        /\ Arity(calls[p]) = 3
        /\ insts[calls[p].inst].a = Unset
        /\ insts[calls[p].inst].c # Unset
====
